---- MODULE Spec2Model ----
(***************************************************************************)
(* Feature extraction for travel-time prediction (obtain_features.py).     *)
(*                                                                         *)
(* Two families of specifications:                                         *)
(*   SpecFn  applies one pure function of the module to inputs drawn from  *)
(*           bounded sets (cutoff lookup, significance filter, row         *)
(*           transformer, reference loaders);                              *)
(*   Spec    runs the public entry point extract_features and the three    *)
(*           extraction variants against a small rides table.              *)
(*                                                                         *)
(* Python values are modelled as follows.  A function call ends in a       *)
(* record [kind |-> "return", value |-> v], [kind |-> "raise", ...] or     *)
(* [kind |-> "exit"].  A datetime string "YYYY-MM-DD HH:MM:SS" is the      *)
(* record of its six numeric fields.  A one-hot row of a csr matrix is     *)
(* [width |-> w, hot |-> c]; a dense row is a tuple.  A real number that   *)
(* results from scaling is the pair <<numerator, denominator>>.            *)
(***************************************************************************)
EXTENDS Integers, Sequences, FiniteSets, TLC

VARIABLES
    call,       \* SpecFn: the function applied and its arguments
    ret,        \* SpecFn: its outcome, or NotCalled
    db,         \* the rides table: a sequence of raw rows
    args,       \* the arguments of extract_features
    pc,         \* where the call stands
    result,     \* the outcome of extract_features, or NotCalled
    gen,        \* the generator of the batch variant: "none", "suspended",
                \* "running", "exhausted" or "raised"
    cutoff_val, NUM_ROWS, offset, batch_num, set_flag, command, rows,
    features, outputs, batch_idx, blks_in_sample, blk_pos, blk_list,
    replace_blk,    \* locals of the running variant (blk_pos is the index i
                    \* of "for i, blk_idx in enumerate(...)")
    queried,    \* a query has been issued to the relational source
    failed,     \* a query has raised sqlite3.Error
    nyield      \* batches the generator has yielded

fnvars == <<call, ret>>

locals ==
    <<cutoff_val, NUM_ROWS, offset, batch_num, set_flag, command, rows,
      features, outputs, batch_idx, blks_in_sample, blk_pos, blk_list, replace_blk>>

pvars == <<db, args, pc, result, gen, locals, queried, failed, nyield>>

vars == <<fnvars, pvars>>

\* Python's None and a value that may be None
None == <<>>
Some(v) == <<v>>

\* a local name that has not been assigned
Unbound == [bound |-> FALSE]

NoCommand == [op |-> "none"]
NotCalled == [kind |-> "pending"]

\* the locals before the variant assigns them
LocalsInit ==
    /\ cutoff_val = 0 /\ NUM_ROWS = 0 /\ offset = 0 /\ batch_num = 0
    /\ set_flag = FALSE /\ command = NoCommand /\ rows = <<>>
    /\ features = Unbound /\ outputs = <<>> /\ batch_idx = 0
    /\ blks_in_sample = <<>> /\ blk_pos = 0 /\ blk_list = <<>>
    /\ replace_blk = FALSE

\* no extraction call is in progress (SpecFn)
Idle ==
    /\ db = <<>> /\ args = None /\ pc = "idle" /\ result = NotCalled
    /\ gen = "none" /\ LocalsInit
    /\ queried = FALSE /\ failed = FALSE /\ nyield = 0
Return(v) == [kind |-> "return", value |-> v]
Raise(e) == [kind |-> "raise", error |-> e]
Exit == [kind |-> "exit"]

Range(s) == {s[k] : k \in DOMAIN s}

Min(a, b) == IF a < b THEN a ELSE b

SetMin(S) == CHOOSE x \in S : \A y \in S : x <= y

SetMax(S) == CHOOSE x \in S : \A y \in S : x >= y

\* the rows of s at the positions where mask is true, in order (numpy s[mask])
RECURSIVE BoolIndex(_, _)
BoolIndex(s, mask) ==
    IF s = <<>> \/ mask = <<>> THEN <<>>
    ELSE IF Head(mask)
         THEN <<Head(s)>> \o BoolIndex(Tail(s), Tail(mask))
         ELSE BoolIndex(Tail(s), Tail(mask))

(***************************************************************************)
(* Encoder                                                                 *)
(***************************************************************************)

\* get_one_hot: row k has its 1 at column values[k]-min_val; scipy rejects a
\* column index outside 0..max_val-min_val
get_one_hot(values, min_val, max_val) ==
    LET cols == [k \in DOMAIN values |-> values[k] - min_val]
        width == max_val - min_val + 1
    IN  IF \E k \in DOMAIN cols : cols[k] < 0 \/ cols[k] >= width
        THEN Raise("ValueError")
        ELSE Return([k \in DOMAIN values |-> [width |-> width, hot |-> cols[k]]])

\* csr row -> dense row (.toarray())
toarray(row) == [c \in 1..row.width |-> IF c = row.hot + 1 THEN 1 ELSE 0]

zeros(n) == [c \in 1..n |-> 0]

\* datetime.date(y, m, d).weekday(): Monday = 0 .. Sunday = 6
weekday(y, m, d) ==
    LET t == <<0, 3, 2, 5, 0, 3, 5, 1, 4, 6, 2, 4>>
        yy == IF m < 3 THEN y - 1 ELSE y
        sun0 == (yy + (yy \div 4) - (yy \div 100) + (yy \div 400) + t[m] + d) % 7
    IN  (sun0 + 6) % 7

\* parse_datetime: six parallel lists; the weekday comes from the calendar date
parse_datetime(datetime_strs) ==
    [dates    |-> [k \in DOMAIN datetime_strs |-> datetime_strs[k].day],
     months   |-> [k \in DOMAIN datetime_strs |-> datetime_strs[k].month],
     hours    |-> [k \in DOMAIN datetime_strs |-> datetime_strs[k].hour],
     minutes  |-> [k \in DOMAIN datetime_strs |-> datetime_strs[k].minute],
     seconds  |-> [k \in DOMAIN datetime_strs |-> datetime_strs[k].second],
     weekdays |-> [k \in DOMAIN datetime_strs |->
                     weekday(datetime_strs[k].year, datetime_strs[k].month,
                             datetime_strs[k].day) + 1]]

\* obtain_date_time_features: per row the six sub-blocks day, month, hour,
\* minute, second, weekday; one-hot or a single index (hour, minute and second
\* shifted by one when not one-hot)
obtain_date_time_features(dl, datetime_onehot, weekdays_onehot) ==
    LET n == DOMAIN dl.dates
        oh(vals, lo, hi) == get_one_hot(vals, lo, hi)
        dates   == IF datetime_onehot THEN oh(dl.dates, 1, 31) ELSE Return(dl.dates)
        months  == IF datetime_onehot THEN oh(dl.months, 1, 12) ELSE Return(dl.months)
        hours   == IF datetime_onehot THEN oh(dl.hours, 0, 23)
                   ELSE Return([k \in n |-> dl.hours[k] + 1])
        minutes == IF datetime_onehot THEN oh(dl.minutes, 0, 59)
                   ELSE Return([k \in n |-> dl.minutes[k] + 1])
        seconds == IF datetime_onehot THEN oh(dl.seconds, 0, 59)
                   ELSE Return([k \in n |-> dl.seconds[k] + 1])
        weekdays == IF weekdays_onehot THEN oh(dl.weekdays, 1, 7) ELSE Return(dl.weekdays)
        parts == <<dates, months, hours, minutes, seconds, weekdays>>
    IN  IF \E p \in 1..6 : parts[p].kind = "raise"
        THEN Raise("ValueError")
        ELSE Return([k \in n |-> [p \in 1..6 |-> parts[p].value[k]]])

(***************************************************************************)
(* Reference Loader                                                        *)
(***************************************************************************)

\* a numpy array indexed from 0 is a sequence; At(a, i) is a[i]
At(a, i) == a[i + 1]

Real(num, den) == IF num = 0 THEN <<0, 1>> ELSE <<num, den>>

ZeroCoord == <<Real(0, 1), Real(0, 1)>>

\* the position a Python index idx reaches in an array of n entries
PyIndex(idx, n) == (IF idx < 0 THEN idx + n ELSE idx) + 1

\* the loop of extract_all_coordinates: coords[row[0]-1] = [row[1], row[2]] for
\* every row in turn, so an entry ends up with the last row written to it;
\* numpy raises IndexError outside -n..n-1 and counts a negative index from the end
FillCoords(coords, rows_) ==
    LET n == Len(coords)
        idx(r) == rows_[r].LocationID - 1
        writers(j) == {r \in DOMAIN rows_ : PyIndex(idx(r), n) = j}
    IN  IF \E r \in DOMAIN rows_ : idx(r) >= n \/ idx(r) < 0 - n
        THEN Raise("IndexError")
        ELSE Return([j \in 1..n |->
                IF writers(j) = {} THEN coords[j]
                ELSE <<rows_[SetMax(writers(j))].lat, rows_[SetMax(writers(j))].long>>])

\* MinMaxScaler().fit_transform: per column (x - min) / (max - min), a zero
\* range being replaced by 1
MinMaxScale(coords) ==
    LET col(c) == {coords[k][c] : k \in DOMAIN coords}
        rng(c) == IF SetMax(col(c)) = SetMin(col(c)) THEN 1
                  ELSE SetMax(col(c)) - SetMin(col(c))
    IN  [k \in DOMAIN coords |->
            <<Real(coords[k][1] - SetMin(col(1)), rng(1)),
              Real(coords[k][2] - SetMin(col(2)), rng(2))>>]

\* vstack([zeros, a]) of extract_all_coordinates: the dummy entry of index 0
StackCoordsNoDummy(coords) == coords

StackCoords(coords) == <<ZeroCoord>> \o coords

extract_all_coordinates(table, normalized) ==
    LET n == Len(table)
        filled == FillCoords([k \in 1..n |-> <<0, 0>>], table)
    IN  IF filled.kind = "raise" THEN filled
        ELSE IF normalized
             THEN IF n = 0 THEN Raise("ValueError")
                  ELSE Return(StackCoords(MinMaxScale(filled.value)))
             ELSE Return(StackCoords(
                     [k \in 1..n |-> <<Real(filled.value[k][1], 1),
                                       Real(filled.value[k][2], 1)>>]))

\* borough_labels.BOROUGHS: region name -> code 1..6
BOROUGHS ==
    [Manhattan |-> 1, Queens |-> 2, Brooklyn |-> 3, Bronx |-> 4,
     StatenIsland |-> 5, EWR |-> 6]

NumBoroughs == 6

\* the loop of extract_all_boroughs: a row whose name is not in BOROUGHS is
\* skipped; boroughs[int(row[0])-1] = code raises outside the array
FillBoroughs(boroughs, rows_) ==
    LET n == Len(boroughs)
        idx(r) == rows_[r].LocationID - 1
        known == {r \in DOMAIN rows_ : rows_[r].Borough \in DOMAIN BOROUGHS}
        writers(j) == {r \in known : PyIndex(idx(r), n) = j}
    IN  IF \E r \in known : idx(r) >= n \/ idx(r) < 0 - n
        THEN Raise("IndexError")
        ELSE Return([j \in 1..n |->
                IF writers(j) = {} THEN boroughs[j]
                ELSE BOROUGHS[rows_[SetMax(writers(j))].Borough]])

\* vstack([zeros(6), a]) of extract_all_boroughs
StackBoroughs(boroughs) == <<zeros(NumBoroughs)>> \o boroughs

extract_all_boroughs(table, maxLocID) ==
    LET filled == FillBoroughs([k \in 1..maxLocID |-> 0], table)
    IN  IF filled.kind = "raise" THEN filled
        ELSE LET enc == get_one_hot(filled.value, 1, NumBoroughs)
             IN  IF enc.kind = "raise" THEN enc
                 ELSE Return(StackBoroughs(
                         [k \in 1..maxLocID |-> toarray(enc.value[k])]))

(***************************************************************************)
(* Row Transformer                                                         *)
(***************************************************************************)

\* a[i] for a Python index i: IndexError outside -len..len-1, a negative index
\* counting from the end
Lookup(a, i) ==
    IF i >= Len(a) \/ i < 0 - Len(a) THEN Raise("IndexError")
    ELSE Return(At(a, IF i < 0 THEN i + Len(a) ELSE i))

\* datetime.timedelta(days, hours, minutes, seconds).seconds: timedelta keeps
\* days apart and 0 <= seconds < 86400, and .seconds is that second field
SecondsPerDay == 86400

\* variant: the whole duration in seconds (total_seconds() for .seconds)
timedelta_total_seconds(days, hours, minutes, seconds) ==
    SecondsPerDay * days + 3600 * hours + 60 * minutes + seconds

timedelta_seconds(days, hours, minutes, seconds) ==
    (SecondsPerDay * days + 3600 * hours + 60 * minutes + seconds) % SecondsPerDay

\* lines 229-236: the target of row k from the parsed pickup and drop-off lists
time_taken(p_datetime, d_datetime, k) ==
    timedelta_seconds(d_datetime.dates[k] - p_datetime.dates[k],
                      d_datetime.hours[k] - p_datetime.hours[k],
                      d_datetime.minutes[k] - p_datetime.minutes[k],
                      d_datetime.seconds[k] - p_datetime.seconds[k])

\* lines 212-227: the order of the sub-blocks of a feature vector
Ordering(opt) ==
    IF opt.include_loc_ids
    THEN <<"PULocID", "PUCoords", "PUBoroughs", "DOLocID", "DOCoords",
           "DOBoroughs", "PUDatetime">>
    ELSE IF opt.use_nn_ordering
         THEN <<"PUCoords", "PUBoroughs", "DOCoords", "DOBoroughs", "PUDatetime">>
         ELSE <<"PUDatetime", "PUCoords", "DOCoords", "PUBoroughs", "DOBoroughs">>

\* sparse.hstack when a one-hot block is present, np.hstack otherwise
IsSparse(opt) == opt.include_loc_ids \/ opt.datetime_onehot \/ opt.weekdays_onehot

\* get_naive_features: (feature matrix, targets) of a non-empty chunk of rows;
\* a matrix is [sparse |-> csr or ndarray, rows |-> its rows], a row the
\* sequence of its named sub-blocks
get_naive_features(rows_, coords, boros, maxLocID, opt) ==
    IF rows_ = <<>> THEN Exit
    ELSE
    LET n == DOMAIN rows_
        p_datetime == parse_datetime([k \in n |-> rows_[k].tpep_pickup_datetime])
        d_datetime == parse_datetime([k \in n |-> rows_[k].tpep_dropoff_datetime])
        PUDatetime == obtain_date_time_features(p_datetime, opt.datetime_onehot,
                                                opt.weekdays_onehot)
        PULocID == [k \in n |-> rows_[k].PULocationID]
        DOLocID == [k \in n |-> rows_[k].DOLocationID]
        PUCoords == [k \in n |-> Lookup(coords, PULocID[k])]
        DOCoords == [k \in n |-> Lookup(coords, DOLocID[k])]
        PUBoroughs == [k \in n |-> Lookup(boros, PULocID[k])]
        DOBoroughs == [k \in n |-> Lookup(boros, DOLocID[k])]
        PUHot == get_one_hot(PULocID, 1, maxLocID)
        DOHot == get_one_hot(DOLocID, 1, maxLocID)
        block(name, k) ==
            CASE name = "PULocID" -> PUHot.value[k]
              [] name = "DOLocID" -> DOHot.value[k]
              [] name = "PUCoords" -> PUCoords[k].value
              [] name = "DOCoords" -> DOCoords[k].value
              [] name = "PUBoroughs" -> PUBoroughs[k].value
              [] name = "DOBoroughs" -> DOBoroughs[k].value
              [] name = "PUDatetime" -> PUDatetime.value[k]
        order == Ordering(opt)
    IN  IF PUDatetime.kind = "raise" THEN PUDatetime
        ELSE IF \E k \in n : \/ PUCoords[k].kind = "raise"
                             \/ DOCoords[k].kind = "raise"
                             \/ PUBoroughs[k].kind = "raise"
                             \/ DOBoroughs[k].kind = "raise"
             THEN Raise("IndexError")
        ELSE IF opt.include_loc_ids /\ (PUHot.kind = "raise" \/ DOHot.kind = "raise")
             THEN Raise("ValueError")
        ELSE Return(
                [features |->
                    [sparse |-> IsSparse(opt),
                     rows |-> [k \in n |->
                                 [b \in DOMAIN order |->
                                     [name |-> order[b], v |-> block(order[b], k)]]]],
                 outputs |-> [k \in n |-> time_taken(p_datetime, d_datetime, k)]])

(***************************************************************************)
(* Significance Filter and cutoff lookup                                   *)
(***************************************************************************)

\* values <= cutoff, the boolean mask of lines 322-323
\* variant: the values are filtered and the features are not
get_significant_data_values_only(features_, values, cutoff) ==
    [features |-> features_,
     outputs |-> BoolIndex(values, [k \in DOMAIN values |-> values[k] <= cutoff])]

CutoffMaskStrict(values, cutoff) == [k \in DOMAIN values |-> values[k] < cutoff]

CutoffMask(values, cutoff) == [k \in DOMAIN values |-> values[k] <= cutoff]

\* get_significant_data: both the features and the values are indexed by the
\* mask of the incoming values; a csr matrix goes through toarray and back
get_significant_data(features_, values, cutoff) ==
    [features |-> [sparse |-> features_.sparse,
                   rows |-> BoolIndex(features_.rows, CutoffMask(values, cutoff))],
     outputs |-> BoolIndex(values, CutoffMask(values, cutoff))]

\* the for loop of get_cutoff_value from entry k on: the first entry whose
\* multiplier equals n sets cv and ends the loop
RECURSIVE ScanCutoff(_, _, _)
ScanCutoff(data_table, n, k) ==
    IF k > Len(data_table) THEN 0 - 1
    ELSE IF data_table[k][1] = n THEN data_table[k][2]
    ELSE ScanCutoff(data_table, n, k + 1)

\* get_cutoff_value: cv starts at -1 and a cv of -1 after the loop is taken as
\* "not found" (exit(1)).  np.loadtxt returns a one-row file as a 1-D array,
\* whose elements cannot be indexed.
get_cutoff_value(n, datacsv) ==
    IF Len(datacsv) = 1 THEN Raise("IndexError")
    ELSE LET cv == ScanCutoff(datacsv, n, 1)
         IN  IF cv = 0 - 1 THEN Exit ELSE Return(cv)

(***************************************************************************)
(* Reference data of the extraction runs: the coordinates and locations    *)
(* tables hold every location 1..maxLocID                                  *)
(***************************************************************************)

maxLocID == 263

coordinates ==
    [k \in 1..maxLocID |-> [LocationID |-> k, lat |-> k % 3, long |-> k % 2]]

locations ==
    [k \in 1..maxLocID |->
        [LocationID |-> k, Borough |-> IF k = 1 THEN "Manhattan" ELSE "Queens"]]

\* the arrays the variants load before they read rides (lines 369-372)
coords == extract_all_coordinates(coordinates, TRUE).value

boros == extract_all_boroughs(locations, maxLocID).value

(***************************************************************************)
(* SpecFn: one call of one function                                        *)
(***************************************************************************)

MaxCutoffRows == 2
MaxValues == 3
MaxLocs == 3
MaxChunk == 1

SeqsUpTo(S, n) == UNION {[1..k -> S] : k \in 0..n}

InjSeqsUpTo(S, n) ==
    {s \in SeqsUpTo(S, n) : \A a, b \in DOMAIN s : a # b => s[a] # s[b]}

Multipliers == {1, 2}
CutoffSeconds == {0 - 1, 600}
CutoffTables == SeqsUpTo(Multipliers \X CutoffSeconds, MaxCutoffRows)

TargetValues == {0, 600, 605}

Datetimes ==
    [year : {2020}, month : {1, 2}, day : {1, 2}, hour : {0, 23},
     minute : {0, 10}, second : {0, 5}]

Options ==
    [datetime_onehot : BOOLEAN, weekdays_onehot : BOOLEAN,
     include_loc_ids : BOOLEAN, use_nn_ordering : BOOLEAN]

DefaultOptions ==
    [datetime_onehot |-> TRUE, weekdays_onehot |-> TRUE,
     include_loc_ids |-> TRUE, use_nn_ordering |-> FALSE]

RawRows ==
    [tpep_pickup_datetime : Datetimes, tpep_dropoff_datetime : Datetimes,
     PULocationID : {1}, DOLocationID : {2}]

CoordTables ==
    {[k \in DOMAIN ids |-> [LocationID |-> ids[k], lat |-> ll[1], long |-> ll[2]]] :
        ids \in InjSeqsUpTo(1..MaxLocs, MaxLocs), ll \in {<<3, 4>>, <<5, 4>>}}
    \cup
    {[k \in DOMAIN ids |-> [LocationID |-> ids[k], lat |-> 2 * ids[k], long |-> 7 - ids[k]]] :
        ids \in InjSeqsUpTo(1..MaxLocs, MaxLocs)}

BoroughNames == {"Manhattan", "EWR", "Unknown"}

BoroughTables ==
    {t \in SeqsUpTo([LocationID : 1..MaxLocs, Borough : BoroughNames], MaxLocs) :
        \A a, b \in DOMAIN t : a # b => t[a].LocationID # t[b].LocationID}

Calls ==
    [fn : {"get_cutoff_value"}, n : Multipliers \cup {3}, datacsv : CutoffTables]
    \cup
    {[fn |-> "get_significant_data",
      features |-> [sparse |-> sp, rows |-> [k \in DOMAIN v |-> k]],
      values |-> v, cutoff |-> c] :
        sp \in BOOLEAN, v \in SeqsUpTo(TargetValues, MaxValues), c \in {600}}
    \cup
    [fn : {"get_naive_features"}, rows : SeqsUpTo(RawRows, MaxChunk) \ {<<>>},
     opt : {DefaultOptions}]
    \cup
    [fn : {"extract_all_coordinates"}, table : CoordTables, normalized : BOOLEAN]
    \cup
    [fn : {"extract_all_boroughs"}, table : BoroughTables, maxLocID : 1..MaxLocs]

InitFn == call \in Calls /\ ret = NotCalled /\ Idle

CallCutoff ==
    /\ call.fn = "get_cutoff_value" /\ ret = NotCalled
    /\ ret' = get_cutoff_value(call.n, call.datacsv)
    /\ UNCHANGED call

CallSignificant ==
    /\ call.fn = "get_significant_data" /\ ret = NotCalled
    /\ ret' = Return(get_significant_data(call.features, call.values, call.cutoff))
    /\ UNCHANGED call

CallNaive ==
    /\ call.fn = "get_naive_features" /\ ret = NotCalled
    /\ ret' = get_naive_features(call.rows, coords, boros, maxLocID, call.opt)
    /\ UNCHANGED call

CallCoordinates ==
    /\ call.fn = "extract_all_coordinates" /\ ret = NotCalled
    /\ ret' = extract_all_coordinates(call.table, call.normalized)
    /\ UNCHANGED call

CallBoroughs ==
    /\ call.fn = "extract_all_boroughs" /\ ret = NotCalled
    /\ ret' = extract_all_boroughs(call.table, call.maxLocID)
    /\ UNCHANGED call

NextFn ==
    \/ CallCutoff /\ UNCHANGED pvars
    \/ CallSignificant /\ UNCHANGED pvars
    \/ CallNaive /\ UNCHANGED pvars
    \/ CallCoordinates /\ UNCHANGED pvars
    \/ CallBoroughs /\ UNCHANGED pvars

SpecFn == InitFn /\ [][NextFn]_vars

(***************************************************************************)
(* Properties of the single functions (SpecFn)                             *)
(***************************************************************************)

Returned(fn) == call.fn = fn /\ ret.kind = "return"

\* the claimed target of a raw row: elapsed seconds from the day, hour, minute
\* and second fields
ElapsedSeconds(row) ==
    86400 * (row.tpep_dropoff_datetime.day - row.tpep_pickup_datetime.day)
    + 3600 * (row.tpep_dropoff_datetime.hour - row.tpep_pickup_datetime.hour)
    + 60 * (row.tpep_dropoff_datetime.minute - row.tpep_pickup_datetime.minute)
    + (row.tpep_dropoff_datetime.second - row.tpep_pickup_datetime.second)

\* C4 as stated: the target of every row equals its elapsed seconds
\* 86400*days + 3600*hours + 60*minutes + seconds.
C4_TargetIsElapsed ==
    Returned("get_naive_features") =>
        \A k \in DOMAIN call.rows :
            ret.value.outputs[k] = ElapsedSeconds(call.rows[k])

\* C4 amended: the target is the seconds field of that duration: it lies in
\* 0..86399, differs from the elapsed seconds by a whole number of days, and so
\* equals them whenever they lie in 0..86399 (605 for the 00:00:00 -> 00:10:05
\* ride); month and year play no part.
C4_TargetIsSecondsField ==
    Returned("get_naive_features") =>
        \A k \in DOMAIN call.rows :
            LET out == ret.value.outputs[k]
                e == ElapsedSeconds(call.rows[k])
            IN  /\ out >= 0 /\ out < 86400
                /\ \E q \in (0 - 32)..32 : e = out + 86400 * q
                /\ (e >= 0 /\ e < 86400 => out = e)
                /\ (e = 605 => out = 605)

C4_Witness ==
    /\ Returned("get_naive_features")
    /\ ElapsedSeconds(call.rows[1]) = 86400 + 605
    /\ call.rows[1].tpep_pickup_datetime.month # call.rows[1].tpep_dropoff_datetime.month
    /\ ret.value.outputs[1] = 605

\* C5: the significance filter returns exactly the rows i with T[i] <= c, in
\* their original order, feature row i still beside target i, and never more
\* rows than it was given.  (The feature row at position i of the input is i.)
C5_FilterKeepsSignificantRows ==
    Returned("get_significant_data") =>
        LET F == ret.value.features.rows
            T == ret.value.outputs
        IN  /\ Len(F) = Len(T)
            /\ Len(F) <= Len(call.values)
            /\ Range(F) = {k \in DOMAIN call.values : call.values[k] <= call.cutoff}
            /\ \A a, b \in DOMAIN F : a < b => F[a] < F[b]
            /\ \A a \in DOMAIN F : T[a] = call.values[F[a]]
            /\ ret.value.features.sparse = call.features.sparse

C5_Witness ==
    /\ Returned("get_significant_data")
    /\ call.values = <<605, 600, 0>>
    /\ ret.value.features.rows = <<2, 3>>
    /\ ret.value.outputs = <<600, 0>>

\* C7 as stated: the lookup returns the cutoff of the first entry whose
\* multiplier equals n, whatever its value, and fails when there is none.
C7_LookupIsExactMatch ==
    (call.fn = "get_cutoff_value" /\ ret # NotCalled) =>
        LET hits == {k \in DOMAIN call.datacsv : call.datacsv[k][1] = call.n}
        IN  IF hits = {} THEN ret = Exit
            ELSE ret = Return(call.datacsv[SetMin(hits)][2])

\* C9: in the arrays of the reference loaders index 0 is the all-zero dummy,
\* with normalization on or off, and the data of every loaded location ID i
\* is at index i.
C9_LocationIdIsIndex ==
    /\ Returned("extract_all_coordinates") =>
        LET lats == {call.table[k].lat : k \in DOMAIN call.table}
            longs == {call.table[k].long : k \in DOMAIN call.table}
            scaled(x, S) ==
                IF x = SetMin(S) THEN <<0, 1>>
                ELSE <<x - SetMin(S), SetMax(S) - SetMin(S)>>
        IN  /\ At(ret.value, 0) = <<<<0, 1>>, <<0, 1>>>>
            /\ Len(ret.value) = Len(call.table) + 1
            /\ \A k \in DOMAIN call.table :
                 At(ret.value, call.table[k].LocationID) =
                    IF call.normalized
                    THEN <<scaled(call.table[k].lat, lats),
                           scaled(call.table[k].long, longs)>>
                    ELSE <<Real(call.table[k].lat, 1), Real(call.table[k].long, 1)>>
    /\ Returned("extract_all_boroughs") =>
        /\ At(ret.value, 0) = <<0, 0, 0, 0, 0, 0>>
        /\ Len(ret.value) = call.maxLocID + 1
        /\ \A k \in DOMAIN call.table :
             call.table[k].Borough \in DOMAIN BOROUGHS =>
                At(ret.value, call.table[k].LocationID) =
                    [c \in 1..6 |-> IF c = BOROUGHS[call.table[k].Borough] THEN 1 ELSE 0]

C9_Witness ==
    /\ Returned("extract_all_coordinates")
    /\ call.normalized
    /\ Len(call.table) = 2
    /\ call.table[1].LocationID = 2
    /\ call.table[1].lat # call.table[2].lat
    /\ At(ret.value, 2) # At(ret.value, 1)
    /\ At(ret.value, 0) = ZeroCoord


(***************************************************************************)
(* The relational source: commands and what executing them returns         *)
(***************************************************************************)

\* list_to_quoted_string: the members of the SQL list '"a", "b"'
list_to_quoted_string(l) == Range(l)

\* the SELECT of lines 387-393, 482-488 and 589-595: WHERE PULocationID < 264
\* AND DOLocationID < 264, in table order or ORDER BY RANDOM(), LIMIT, OFFSET
SelectCommand(random, limit_, offset_) ==
    [op |-> "select", random |-> random, limit |-> limit_, offset |-> offset_,
     boros |-> None]

\* filter_for_boros: the command becomes a subquery r joined with locations
\* l1 (pickup) and l2 (drop-off) under the region condition
filter_for_boros(command_, start_super_boro, end_super_boro, two_way) ==
    [command_ EXCEPT !.boros =
        Some([start |-> list_to_quoted_string(start_super_boro),
              end |-> list_to_quoted_string(end_super_boro),
              two_way |-> two_way])]

LocationIDBound == 264

\* the rows the WHERE clause of the SELECT lets through, in table order
WhereRows(table) ==
    LET keep(r) == r.PULocationID < LocationIDBound /\ r.DOLocationID < LocationIDBound
    IN  SelectSeq(table, keep)

\* l.Borough in (names) for the locations row of a location ID
BoroughIn(id, names) ==
    \E k \in DOMAIN locations :
        locations[k].LocationID = id /\ locations[k].Borough \in names

\* the join condition filter_for_boros adds (lines 273-281)
BoroCondition(r, b) ==
    IF b.two_way
    THEN \/ BoroughIn(r.PULocationID, b.start) /\ BoroughIn(r.DOLocationID, b.end)
         \/ BoroughIn(r.DOLocationID, b.start) /\ BoroughIn(r.PULocationID, b.end)
    ELSE BoroughIn(r.PULocationID, b.start) /\ BoroughIn(r.DOLocationID, b.end)

\* the possible row windows of the inner SELECT: LIMIT/OFFSET over the rows
\* that pass WHERE, in table order, or any LIMIT of them in any order
Windows(cmd, table) ==
    LET base == WhereRows(table)
        m == Min(cmd.limit[1], Len(base))
    IN  IF cmd.random
        THEN {[k \in 1..m |-> base[pick[k]]] :
                pick \in {q \in [1..m -> DOMAIN base] :
                            \A a, b \in 1..m : a # b => q[a] # q[b]}}
        ELSE {SubSeq(base, cmd.offset + 1, Min(cmd.offset + cmd.limit[1], Len(base)))}

\* the rows of a window that the command returns
Fetch(cmd, window) ==
    IF cmd.boros = None THEN window
    ELSE LET cond(r) == BoroCondition(r, cmd.boros[1])
         IN  SelectSeq(window, cond)

\* a command SQLite cannot run: LIMIT None
Malformed(cmd) == cmd.limit = None

\* cursor.execute(command); cursor.fetchall(): the possible results
Results(cmd, table) == {Fetch(cmd, w) : w \in Windows(cmd, table)}

(***************************************************************************)
(* Spec: extract_features and the three variants                           *)
(***************************************************************************)

MaxRows == 3

\* page size of the exhaustive scan (1e6 in the source, scaled to the tables
\* of the model)
limit == 2

At000000 == [year |-> 2020, month |-> 1, day |-> 1, hour |-> 0, minute |-> 0, second |-> 0]

\* Manhattan -> Queens in 605 s; Queens -> Manhattan in 3600 s; a pickup
\* location outside the known range
RideKinds ==
    {[tpep_pickup_datetime |-> At000000,
      tpep_dropoff_datetime |-> [At000000 EXCEPT !.minute = 10, !.second = 5],
      PULocationID |-> 1, DOLocationID |-> 2],
     [tpep_pickup_datetime |-> At000000,
      tpep_dropoff_datetime |-> [At000000 EXCEPT !.hour = 1],
      PULocationID |-> 2, DOLocationID |-> 1],
     [tpep_pickup_datetime |-> At000000,
      tpep_dropoff_datetime |-> [At000000 EXCEPT !.minute = 10],
      PULocationID |-> 264, DOLocationID |-> 1]}

Tables == SeqsUpTo(RideKinds, MaxRows)

CutoffCsv == <<<<1, 1000>>, <<2, 2000>>>>

RegionArgs ==
    {[start_super_boro |-> None, end_super_boro |-> None, two_way |-> TRUE],
     [start_super_boro |-> Some(<<"Manhattan">>), end_super_boro |-> Some(<<"Queens">>),
      two_way |-> TRUE],
     [start_super_boro |-> Some(<<"Manhattan">>), end_super_boro |-> Some(<<"Queens">>),
      two_way |-> FALSE],
     [start_super_boro |-> Some(<<"Manhattan">>), end_super_boro |-> None, two_way |-> TRUE],
     [start_super_boro |-> None, end_super_boro |-> Some(<<"Queens">>), two_way |-> TRUE]}

SizeArgs ==
    {[variant |-> "all", size |-> None, block_size |-> None],
     [variant |-> "stream", size |-> None, block_size |-> None],
     [variant |-> "random", size |-> None, block_size |-> None],
     [variant |-> "random", size |-> Some(1), block_size |-> None],
     [variant |-> "random", size |-> Some(2), block_size |-> None],
     [variant |-> "batch", size |-> None, block_size |-> Some(1)],
     [variant |-> "batch", size |-> Some(2), block_size |-> None],
     [variant |-> "batch", size |-> Some(3), block_size |-> Some(2)],
     [variant |-> "batch", size |-> Some(1), block_size |-> Some(1)],
     [variant |-> "batch", size |-> Some(2), block_size |-> Some(1)],
     [variant |-> "batch", size |-> Some(2), block_size |-> Some(2)]}

ArgSets ==
    {[variant |-> sz.variant, size |-> sz.size, block_size |-> sz.block_size,
      start_super_boro |-> rg.start_super_boro, end_super_boro |-> rg.end_super_boro,
      two_way |-> rg.two_way, stddev_multiplier |-> m, cutoff_data_csv |-> CutoffCsv,
      opt |-> DefaultOptions] :
        sz \in SizeArgs, rg \in RegionArgs, m \in {1, 3}}

Init ==
    /\ call = None /\ ret = NotCalled
    /\ db \in Tables
    /\ args \in ArgSets
    /\ pc = "extract_features"
    /\ result = NotCalled
    /\ gen = "none"
    /\ LocalsInit
    /\ queried = FALSE /\ failed = FALSE /\ nyield = 0

\* the call ends: it returns, raises or exits the process
Finish(outcome) == result' = outcome /\ pc' = "done"

\* extract_features (lines 673-704) up to the call of the variant
ExtractFeatures ==
    /\ pc = "extract_features"
    /\ LET cv == get_cutoff_value(args.stddev_multiplier, args.cutoff_data_csv)
       IN  IF cv.kind # "return"
           THEN Finish(cv) /\ UNCHANGED <<gen, locals>>
           ELSE /\ cutoff_val' = cv.value
                /\ CASE args.variant = "all" ->
                          /\ pc' = "extract_all_features"
                          /\ UNCHANGED <<result, gen, replace_blk>>
                     [] args.variant = "random" ->
                          \* a size that is no int is only reported
                          /\ pc' = "extract_random_data_features"
                          /\ UNCHANGED <<result, gen, replace_blk>>
                     [] args.variant = "batch" ->
                          IF \/ args.size = None
                             \/ args.block_size = None
                             \/ args.size[1] % args.block_size[1] > 0
                          THEN Finish(Exit) /\ UNCHANGED <<gen, replace_blk>>
                          ELSE \* the generator object is returned; its body
                               \* has not started
                               /\ result' = Return("generator")
                               /\ gen' = "suspended"
                               /\ replace_blk' = TRUE
                               /\ pc' = "extract_batch_features"
                     [] OTHER -> Finish(Exit) /\ UNCHANGED <<gen, replace_blk>>
                /\ UNCHANGED <<NUM_ROWS, offset, batch_num, set_flag, command, rows,
                               features, outputs, batch_idx, blks_in_sample,
                               blk_pos, blk_list>>
    /\ UNCHANGED <<fnvars, db, args, queried, failed, nyield>>

\* the assertions that open every variant (lines 359-362, 469-472, 548-551)
RegionArgsPaired == (args.start_super_boro = None) <=> (args.end_super_boro = None)

\* the command of a variant, with the region restriction when one is given
WithRegion(cmd, two_way) ==
    IF args.start_super_boro # None /\ args.end_super_boro # None
    THEN filter_for_boros(cmd, args.start_super_boro[1], args.end_super_boro[1], two_way)
    ELSE cmd

\* get_naive_features as the variants call it
Transform(chunk, use_nn_ordering) ==
    get_naive_features(chunk, coords, boros, maxLocID,
                       [args.opt EXCEPT !.use_nn_ordering = use_nn_ordering])

\* np.vstack of two arrays, sparse.vstack (csr) otherwise
vstack(a, b) == [sparse |-> ~(~a.sparse /\ ~b.sparse), rows |-> a.rows \o b.rows]

\* ---------------------------------------------------------------- exhaustive

\* extract_all_features, lines 359-384: assertions, reference tables, row count
AllEntry ==
    /\ pc = "extract_all_features"
    /\ IF ~RegionArgsPaired
       THEN Finish(Raise("AssertionError")) /\ UNCHANGED <<locals, queried, failed>>
       ELSE \/ \* a query of the reference loaders raises
               /\ Finish(Raise("sqlite3.Error"))
               /\ queried' = TRUE /\ failed' = TRUE /\ UNCHANGED locals
            \/ \* the count query raises: reported, then fetchone() is None
               /\ Finish(Raise("TypeError"))
               /\ queried' = TRUE /\ failed' = TRUE /\ UNCHANGED locals
            \/ /\ NUM_ROWS' = Len(db)
               /\ offset' = 0 /\ batch_num' = 0 /\ set_flag' = FALSE
               /\ pc' = "all_loop"
               /\ queried' = TRUE
               /\ UNCHANGED <<result, failed, cutoff_val, command, rows, features,
                              outputs, batch_idx, blks_in_sample, blk_pos, blk_list,
                              replace_blk>>
    /\ UNCHANGED <<fnvars, db, args, gen, nyield>>

\* one pass of the while loop, lines 385-435
AllPage ==
    /\ pc = "all_loop"
    /\ batch_num * limit < NUM_ROWS
    /\ LET cmd == WithRegion(SelectCommand(FALSE, Some(limit), offset), args.two_way)
       IN  /\ command' = cmd
           /\ queried' = TRUE
           /\ \/ \* cursor.execute raises: stop_condition, break
                 /\ failed' = TRUE
                 /\ pc' = "all_return"
                 /\ UNCHANGED <<result, batch_num, rows, offset, set_flag, features, outputs>>
              \/ \E fetched \in Results(cmd, db) :
                 /\ batch_num' = batch_num + 1
                 /\ rows' = fetched
                 /\ UNCHANGED failed
                 /\ IF Len(fetched) = 0
                    THEN /\ offset' = offset + limit
                         /\ UNCHANGED <<result, pc, set_flag, features, outputs>>
                    ELSE LET got == Transform(fetched, IF set_flag THEN FALSE
                                                       ELSE args.opt.use_nn_ordering)
                         IN  IF got.kind # "return"
                             THEN /\ Finish(got)
                                  /\ UNCHANGED <<offset, set_flag, features, outputs>>
                             ELSE LET sig == get_significant_data(
                                                got.value.features, got.value.outputs,
                                                cutoff_val)
                                  IN  /\ features' = IF set_flag
                                                     THEN vstack(features, sig.features)
                                                     ELSE sig.features
                                      /\ outputs' = IF set_flag
                                                    THEN outputs \o sig.outputs
                                                    ELSE sig.outputs
                                      /\ set_flag' = TRUE
                                      /\ offset' = offset + limit
                                      /\ UNCHANGED <<result, pc>>
    /\ UNCHANGED <<fnvars, db, args, gen, nyield, cutoff_val, NUM_ROWS, batch_idx,
                   blks_in_sample, blk_pos, blk_list, replace_blk>>

\* line 437, reached when the loop condition fails or after break
AllReturn ==
    /\ \/ pc = "all_return"
       \/ pc = "all_loop" /\ ~(batch_num * limit < NUM_ROWS)
    /\ IF features = Unbound
       THEN Finish(Raise("UnboundLocalError"))
       ELSE Finish(Return([features |-> features, outputs |-> outputs]))
    /\ UNCHANGED <<fnvars, db, args, gen, nyield, locals, queried, failed>>

\* -------------------------------------------------------------------- random

\* extract_random_data_features, lines 469-493
RandomEntry ==
    /\ pc = "extract_random_data_features"
    /\ IF ~RegionArgsPaired
       THEN Finish(Raise("AssertionError")) /\ UNCHANGED <<command, queried, failed>>
       ELSE \/ \* a query of the reference loaders raises
               /\ Finish(Raise("sqlite3.Error"))
               /\ queried' = TRUE /\ failed' = TRUE /\ UNCHANGED command
            \/ /\ command' = WithRegion(SelectCommand(TRUE, args.size, 0), args.two_way)
               /\ pc' = "random_loop"
               /\ queried' = TRUE
               /\ UNCHANGED <<result, failed>>
    /\ UNCHANGED <<fnvars, db, args, gen, nyield, cutoff_val, NUM_ROWS, offset,
                   batch_num, set_flag, rows, features, outputs, batch_idx,
                   blks_in_sample, blk_pos, blk_list, replace_blk>>

RowsFoundOrNot(fetched) == Len(fetched) >= 0

\* line 502: rows.shape[0] > 0 ends the loop
RowsFound(fetched) == Len(fetched) > 0

\* one pass of "while True", lines 495-503: a failed execute is reported and
\* fetchall() then returns no rows
RandomQuery ==
    /\ pc = "random_loop"
    /\ queried' = TRUE
    /\ \/ /\ failed' = TRUE
          /\ rows' = <<>>
          /\ UNCHANGED pc
       \/ /\ ~Malformed(command)
          /\ \E fetched \in Results(command, db) :
                /\ rows' = fetched
                /\ pc' = IF RowsFound(fetched) THEN "random_transform" ELSE "random_loop"
          /\ UNCHANGED failed
    /\ UNCHANGED <<fnvars, db, args, result, gen, nyield, cutoff_val, NUM_ROWS,
                   offset, batch_num, set_flag, command, features, outputs,
                   batch_idx, blks_in_sample, blk_pos, blk_list, replace_blk>>

\* lines 505-511
RandomTransform ==
    /\ pc = "random_transform"
    /\ LET got == Transform(rows, args.opt.use_nn_ordering)
       IN  IF got.kind # "return"
           THEN Finish(got) /\ UNCHANGED <<features, outputs>>
           ELSE LET sig == get_significant_data(got.value.features,
                                                got.value.outputs, cutoff_val)
                IN  /\ features' = sig.features
                    /\ outputs' = sig.outputs
                    /\ Finish(Return([features |-> sig.features,
                                      outputs |-> sig.outputs]))
    /\ UNCHANGED <<fnvars, db, args, gen, nyield, cutoff_val, NUM_ROWS, offset,
                   batch_num, set_flag, command, rows, batch_idx, blks_in_sample,
                   blk_pos, blk_list, replace_blk, queried, failed>>

\* --------------------------------------------------------------------- batch

\* lines 571-574
NUM_BATCH == NUM_ROWS \div args.size[1]
NUM_BLKS == NUM_ROWS \div args.block_size[1]
BLKS_PER_BATCH == args.size[1] \div args.block_size[1]

\* np.sort of a set of block indices
RECURSIVE SortedSeq(_)
SortedSeq(S) == IF S = {} THEN <<>> ELSE <<SetMin(S)>> \o SortedSeq(S \ {SetMin(S)})

\* np.random.choice(n, size, replace=False): any size distinct indices below n
Choices(n, size) == {S \in SUBSET (0..(n - 1)) : Cardinality(S) = size}

\* the generator stops with an exception
GenRaise == gen' = "raised" /\ pc' = "done"

\* the caller asks the generator for the next batch (next(), a for loop)
CallerNext ==
    /\ gen = "suspended"
    /\ gen' = "running"
    /\ UNCHANGED <<fnvars, db, args, pc, result, locals, queried, failed, nyield>>

\* extract_batch_features, lines 548-575: runs at the first request
BatchEntry ==
    /\ pc = "extract_batch_features"
    /\ gen = "running"
    /\ IF ~RegionArgsPaired
       THEN GenRaise /\ UNCHANGED <<locals, queried, failed>>
       ELSE \/ \* a query of the reference loaders raises
               /\ GenRaise
               /\ queried' = TRUE /\ failed' = TRUE /\ UNCHANGED locals
            \/ \* the count query raises: reported, then fetchone() is None
               /\ GenRaise
               /\ queried' = TRUE /\ failed' = TRUE /\ UNCHANGED locals
            \/ /\ NUM_ROWS' = Len(db)
               /\ blk_list' = [k \in 1..(Len(db) \div args.block_size[1]) |-> k - 1]
               /\ batch_idx' = 0
               /\ pc' = "batch_for"
               /\ queried' = TRUE
               /\ UNCHANGED <<gen, failed, cutoff_val, offset, batch_num, set_flag,
                              command, rows, features, outputs, blks_in_sample,
                              blk_pos, replace_blk>>
    /\ UNCHANGED <<fnvars, db, args, result, nyield>>

\* the head of "for batch_idx in range(NUM_BATCH)", lines 577-583: the next
\* sample of blocks, or the end of the generator
BatchFor ==
    /\ pc = "batch_for"
    /\ gen = "running"
    /\ IF batch_idx < NUM_BATCH
       THEN \E sample \in Choices(NUM_BLKS, BLKS_PER_BATCH) :
                /\ blks_in_sample' = SortedSeq(sample)
                /\ blk_list' = IF replace_blk THEN blk_list
                               ELSE LET stays(item) == item \notin sample
                                    IN  SelectSeq(blk_list, stays)
                /\ blk_pos' = 0
                /\ pc' = "batch_block"
                /\ UNCHANGED gen
       ELSE /\ gen' = "exhausted"
            /\ pc' = "done"
            /\ UNCHANGED <<blks_in_sample, blk_list, blk_pos>>
    /\ UNCHANGED <<fnvars, db, args, result, nyield, queried, failed, cutoff_val,
                   NUM_ROWS, offset, batch_num, set_flag, command, rows, features,
                   outputs, batch_idx, replace_blk>>

\* one block of the sample, lines 585-628
BatchBlock ==
    /\ pc = "batch_block"
    /\ gen = "running"
    /\ blk_pos < Len(blks_in_sample)
    /\ LET blk_idx == blks_in_sample[blk_pos + 1]
           cmd == WithRegion(SelectCommand(FALSE, args.block_size,
                                           blk_idx * args.block_size[1]), TRUE)
       IN  /\ command' = cmd
           /\ queried' = TRUE
           /\ \E fetched \in Results(cmd, db) \cup {<<>>} :
              /\ \/ \* cursor.execute raises: reported, fetchall() has no rows
                    fetched = <<>> /\ failed' = TRUE
                 \/ fetched \in Results(cmd, db) /\ UNCHANGED failed
              /\ rows' = fetched
              /\ IF Len(fetched) = 0
                 THEN /\ blk_pos' = blk_pos + 1
                      /\ UNCHANGED <<pc, gen, features, outputs>>
                 ELSE LET got == Transform(fetched, IF blk_pos = 0
                                                    THEN args.opt.use_nn_ordering
                                                    ELSE FALSE)
                      IN  IF got.kind # "return"
                          THEN GenRaise /\ UNCHANGED <<blk_pos, features, outputs>>
                          ELSE IF blk_pos = 0
                          THEN /\ features' = got.value.features
                               /\ outputs' = got.value.outputs
                               /\ blk_pos' = blk_pos + 1
                               /\ UNCHANGED <<pc, gen>>
                          ELSE IF features = Unbound
                          THEN \* isinstance(features, ...) on an unassigned name
                               GenRaise /\ UNCHANGED <<blk_pos, features, outputs>>
                          ELSE /\ features' = vstack(features, got.value.features)
                               /\ outputs' = outputs \o got.value.outputs
                               /\ blk_pos' = blk_pos + 1
                               /\ UNCHANGED <<pc, gen>>
    /\ UNCHANGED <<fnvars, db, args, result, nyield, cutoff_val, NUM_ROWS, offset,
                   batch_num, set_flag, batch_idx, blks_in_sample, blk_list,
                   replace_blk>>

\* variant: the batch is handed over and the body keeps running (a producer
\* that does not wait for the next request)
BatchYieldKeepsRunning ==
    /\ pc = "batch_block"
    /\ gen = "running"
    /\ blk_pos = Len(blks_in_sample)
    /\ IF features = Unbound
       THEN GenRaise /\ UNCHANGED <<features, outputs, batch_idx, nyield>>
       ELSE LET sig == get_significant_data(features, outputs, cutoff_val)
            IN  /\ features' = sig.features
                /\ outputs' = sig.outputs
                /\ gen' = "running"
                /\ nyield' = nyield + 1
                /\ batch_idx' = batch_idx + 1
                /\ pc' = "batch_for"
    /\ UNCHANGED <<fnvars, db, args, result, queried, failed, cutoff_val, NUM_ROWS,
                   offset, batch_num, set_flag, command, rows, blks_in_sample,
                   blk_pos, blk_list, replace_blk>>

\* lines 630-631, after the last block: filter and yield
BatchYield ==
    /\ pc = "batch_block"
    /\ gen = "running"
    /\ blk_pos = Len(blks_in_sample)
    /\ IF features = Unbound
       THEN GenRaise /\ UNCHANGED <<features, outputs, batch_idx, nyield>>
       ELSE LET sig == get_significant_data(features, outputs, cutoff_val)
            IN  /\ features' = sig.features
                /\ outputs' = sig.outputs
                /\ gen' = "suspended"
                /\ nyield' = nyield + 1
                /\ batch_idx' = batch_idx + 1
                /\ pc' = "batch_for"
    /\ UNCHANGED <<fnvars, db, args, result, queried, failed, cutoff_val, NUM_ROWS,
                   offset, batch_num, set_flag, command, rows, blks_in_sample,
                   blk_pos, blk_list, replace_blk>>

Next ==
    \/ ExtractFeatures
    \/ AllEntry
    \/ AllPage
    \/ AllReturn
    \/ RandomEntry
    \/ RandomQuery
    \/ RandomTransform
    \/ CallerNext
    \/ BatchEntry
    \/ BatchFor
    \/ BatchBlock
    \/ BatchYield

Spec == Init /\ [][Next]_vars

(***************************************************************************)
(* Properties of the extraction runs (Spec)                                *)
(***************************************************************************)

\* the target the transformer gives a raw row
TargetOf(r) ==
    time_taken(parse_datetime(<<r.tpep_pickup_datetime>>),
               parse_datetime(<<r.tpep_dropoff_datetime>>), 1)

\* the region name of a location ID, "" when the locations table has none
RegionOf(id) ==
    IF \E k \in DOMAIN locations : locations[k].LocationID = id
    THEN locations[CHOOSE k \in DOMAIN locations : locations[k].LocationID = id].Borough
    ELSE ""

\* the rides a region restriction A = start, B = end is said to select
RegionPairSelects(r) ==
    LET A == Range(args.start_super_boro[1])
        B == Range(args.end_super_boro[1])
        pu == RegionOf(r.PULocationID)
        do == RegionOf(r.DOLocationID)
    IN  IF args.two_way
        THEN (pu \in A /\ do \in B) \/ (pu \in B /\ do \in A)
        ELSE pu \in A /\ do \in B

RegionGiven == args.start_super_boro # None /\ args.end_super_boro # None

\* C1 as stated: with batch_size a positive multiple of block_size and the
\* caller requesting batches to the end, the streaming sequence yields exactly
\* floor(total_rows / batch_size) batches and then ends, whatever the block
\* queries return.
C1_YieldsAllBatches ==
    (args.variant = "batch" /\ RegionArgsPaired /\ ~failed
        /\ gen \in {"exhausted", "raised"}) =>
            gen = "exhausted" /\ nyield = Len(db) \div args.size[1]

\* C2 as stated: in every variant the rows a region-restricted query returns
\* are exactly the rows of its window that go from A to B, or also from B to A
\* when two_way is true.
C2_RegionPairSelection ==
    (RegionGiven /\ ~failed /\ rows # <<>>) =>
        \E w \in Windows(command, db) :
            rows = SelectSeq(w, RegionPairSelects)

\* C3 as stated: without query errors the exhaustive variant returns, for any
\* table, every row that passes the query filter with target <= cutoff, once
\* and in source order, and nothing else.
C3_ExhaustiveReturnsAllSignificant ==
    (args.variant = "all" /\ RegionArgsPaired /\ ~failed /\ pc = "done"
        /\ args.stddev_multiplier = 1) =>
        LET passes(r) == /\ r.PULocationID < 264 /\ r.DOLocationID < 264
                         /\ (RegionGiven => RegionPairSelects(r))
            significant(r) == TargetOf(r) <= 1000
            expected == SelectSeq(SelectSeq(db, passes), significant)
        IN  /\ result.kind = "return"
            /\ result.value.outputs = [k \in DOMAIN expected |-> TargetOf(expected[k])]
            /\ Len(result.value.features.rows) = Len(expected)

\* the configuration errors of extract_features
ConfigError ==
    \/ args.variant \in {"random", "batch"} /\ args.size = None
    \/ args.variant = "batch" /\ args.block_size = None
    \/ /\ args.variant = "batch" /\ args.size # None /\ args.block_size # None
       /\ args.size[1] % args.block_size[1] # 0
    \/ ~RegionArgsPaired
    \/ args.variant \notin {"all", "random", "batch"}

\* C6 as stated: on every configuration error the call fails with an error
\* before any query is issued to the relational source.
C6_ConfigErrorFailsBeforeQuery ==
    ConfigError =>
        /\ ~queried
        /\ (pc = "done" => result.kind \in {"exit", "raise"} \/ gen = "raised")

\* C8: every batch the streaming sequence yields has as many feature rows as
\* targets, after the significance filter, whatever the block queries returned.
C8_YieldedBatchIsPaired ==
    (args.variant = "batch" /\ gen = "suspended" /\ nyield > 0) =>
        /\ features # Unbound
        /\ Len(features.rows) = Len(outputs)
        /\ \A k \in DOMAIN outputs : outputs[k] <= cutoff_val

C8_Witness ==
    /\ args.variant = "batch" /\ gen = "suspended" /\ nyield = 1
    /\ args.size = Some(2) /\ args.block_size = Some(1)
    /\ Len(db) = 3
    /\ TargetOf(db[1]) > cutoff_val
    /\ Len(outputs) = 1
    /\ Len(features.rows) = 1

\* C10: the random variant is back at its query whenever the last query gave
\* no rows; it leaves the loop only with the rows of a query that returned at
\* least one, and its result is those rows transformed and filtered once: it
\* never returns a result built from an empty query.
C10_RandomRetriesUntilRows ==
    (args.variant = "random" /\ command # NoCommand) =>
        /\ rows = <<>> => pc = "random_loop"
        /\ pc \in {"random_loop", "random_transform", "done"}
        /\ pc = "random_transform" => Len(rows) > 0
        /\ (pc = "done" /\ result.kind = "return") =>
            LET significant(r) == TargetOf(r) <= cutoff_val
                kept == SelectSeq(rows, significant)
            IN  /\ Len(rows) > 0
                /\ \E w \in Windows(command, db) : rows = Fetch(command, w)
                /\ result.value.outputs = [k \in DOMAIN kept |-> TargetOf(kept[k])]
                /\ Len(result.value.features.rows) = Len(kept)

C10_Witness ==
    /\ args.variant = "random" /\ pc = "done" /\ result.kind = "return"
    /\ failed
    /\ Len(rows) = 2
    /\ Len(result.value.outputs) = 1

\* C11 as stated: when the page query of the exhaustive scan fails at page k
\* (k >= 0), the call returns normally with exactly the significant rows of
\* pages 0..k-1 and raises nothing.
C11_PageFailureEndsScanNormally ==
    (args.variant = "all" /\ failed /\ command # NoCommand /\ pc = "done") =>
        LET before == SubSeq(WhereRows(db), 1, Min(offset, Len(WhereRows(db))))
            significant(r) == TargetOf(r) <= cutoff_val
            expected == SelectSeq(Fetch(command, before), significant)
        IN  /\ result.kind = "return"
            /\ result.value.outputs = [k \in DOMAIN expected |-> TargetOf(expected[k])]
            /\ Len(result.value.features.rows) = Len(expected)

\* C12 as stated: when the regions table has a location with a name outside
\* the name-to-code table, or leaves a location ID of 1..maxLocID without a
\* row, extract_all_boroughs does not fail and returns the zero vector for that
\* location and the one-hot vector of its code for every other location.
C12_UnknownRegionKeepsZeroVector ==
    LET t == call.table
        named(id) == \E k \in DOMAIN t :
                        t[k].LocationID = id /\ t[k].Borough \in DOMAIN BOROUGHS
        code(id) == BOROUGHS[t[CHOOSE k \in DOMAIN t : t[k].LocationID = id].Borough]
    IN  (/\ call.fn = "extract_all_boroughs" /\ ret # NotCalled
         /\ \A k \in DOMAIN t : t[k].LocationID \in 1..call.maxLocID
         /\ \E id \in 1..call.maxLocID : ~named(id)) =>
            /\ ret.kind = "return"
            /\ \A id \in 1..call.maxLocID :
                    ret.value[id + 1] =
                        IF named(id)
                        THEN [c \in 1..NumBoroughs |-> IF c = code(id) THEN 1 ELSE 0]
                        ELSE zeros(NumBoroughs)

\* the rows the blocks of the current sample hold: the rows that pass WHERE
\* at the offsets of those blocks, in table order, under the region
\* restriction of the block command
RowsOfSample ==
    LET base == WhereRows(db)
        picked == {p \in DOMAIN base :
                     \E k \in DOMAIN blks_in_sample :
                        (p - 1) \div args.block_size[1] = blks_in_sample[k]}
        order == SortedSeq(picked)
    IN  Fetch(command, [k \in DOMAIN order |-> base[order[k]]])

\* C13 as stated: every yielded batch holds exactly the transformed and
\* filtered rows of the blocks selected for it, nothing of an earlier batch,
\* also when selected blocks return no rows.
C13_BatchHoldsOnlyItsBlocks ==
    (args.variant = "batch" /\ gen = "suspended" /\ nyield > 0 /\ ~failed) =>
        LET significant(r) == TargetOf(r) <= cutoff_val
            expected == SelectSeq(RowsOfSample, significant)
        IN  /\ outputs = [k \in DOMAIN expected |-> TargetOf(expected[k])]
            /\ Len(features.rows) = Len(expected)

(***************************************************************************)
(* SpecBatch: extract_batch_features called directly, which is the only    *)
(* way to choose replace_blk (extract_features always passes True)         *)
(***************************************************************************)

\* a direct call returns the generator object; its body has not started
InitBatch ==
    /\ call = None /\ ret = NotCalled
    /\ db \in Tables
    /\ args \in {a \in ArgSets :
                    /\ a.variant = "batch" /\ a.size # None /\ a.block_size # None
                    /\ a.size[1] % a.block_size[1] = 0
                    /\ a.stddev_multiplier = 1}
    /\ pc = "extract_batch_features"
    /\ result = Return("generator")
    /\ gen = "suspended"
    /\ cutoff_val = 1000 /\ NUM_ROWS = 0 /\ offset = 0 /\ batch_num = 0
    /\ set_flag = FALSE /\ command = NoCommand /\ rows = <<>>
    /\ features = Unbound /\ outputs = <<>> /\ batch_idx = 0
    /\ blks_in_sample = <<>> /\ blk_pos = 0 /\ blk_list = <<>>
    /\ replace_blk \in BOOLEAN
    /\ queried = FALSE /\ failed = FALSE /\ nyield = 0

NextBatch ==
    \/ CallerNext
    \/ BatchEntry
    \/ BatchFor
    \/ BatchBlock
    \/ BatchYield

SpecBatch == InitBatch /\ [][NextBatch]_vars

\* C14 as stated: without replacement (replace_blk false) the blocks drawn for
\* a batch were not drawn for any earlier batch of the sequence, i.e. they are
\* all still in blk_list, from which every earlier sample has been removed.
C14_NoBlockDrawnTwice ==
    [][(~replace_blk /\ pc = "batch_for" /\ pc' = "batch_block") =>
            Range(blks_in_sample') \subseteq Range(blk_list)]_vars

(***************************************************************************)
(* SpecOrder: extract_features under every combination of the encoding     *)
(* options                                                                 *)
(***************************************************************************)

InitOrder ==
    /\ call = None /\ ret = NotCalled
    /\ db \in Tables
    /\ args \in {[a EXCEPT !.opt = o] :
                    a \in {b \in ArgSets :
                            /\ b.stddev_multiplier = 1
                            /\ b.start_super_boro = None /\ b.end_super_boro = None
                            /\ \/ b.variant = "all"
                               \/ b.variant = "random" /\ b.size = Some(2)
                               \/ b.variant = "batch" /\ b.size = Some(2)
                                     /\ b.block_size = Some(1)},
                    o \in Options}
    /\ pc = "extract_features"
    /\ result = NotCalled
    /\ gen = "none"
    /\ LocalsInit
    /\ queried = FALSE /\ failed = FALSE /\ nyield = 0

SpecOrder == InitOrder /\ [][Next]_vars

\* the sub-block names of a feature row, in column order
BlockNames(row) == [b \in DOMAIN row |-> row[b].name]

\* C15 as stated: in the result of the exhaustive variant and in every batch
\* of the streaming variant, every row has its sub-blocks in the order that
\* the options select, rows of later pages and blocks included.
C15_OneOrderingPerResult ==
    /\ (args.variant = "all" /\ pc = "done" /\ result.kind = "return") =>
            \A k \in DOMAIN result.value.features.rows :
                BlockNames(result.value.features.rows[k]) = Ordering(args.opt)
    /\ (args.variant = "batch" /\ gen = "suspended" /\ nyield > 0) =>
            \A k \in DOMAIN features.rows :
                BlockNames(features.rows[k]) = Ordering(args.opt)

(***************************************************************************)
(* SpecIds: rides tables that also hold a location ID below 1              *)
(***************************************************************************)

\* a ride whose pickup location ID is 0
RideBelowRange ==
    [tpep_pickup_datetime |-> At000000,
     tpep_dropoff_datetime |-> [At000000 EXCEPT !.minute = 10],
     PULocationID |-> 0, DOLocationID |-> 1]

InitIds ==
    /\ call = None /\ ret = NotCalled
    /\ db \in SeqsUpTo(RideKinds \cup {RideBelowRange}, MaxRows)
    /\ args \in {a \in ArgSets :
                    /\ a.stddev_multiplier = 1
                    /\ (a.start_super_boro = None) = (a.end_super_boro = None)
                    /\ a.two_way
                    /\ \/ a.variant = "all"
                       \/ a.variant = "random" /\ a.size = Some(2)
                       \/ a.variant = "batch" /\ a.size = Some(1)
                             /\ a.block_size = Some(1)}
    /\ pc = "extract_features"
    /\ result = NotCalled
    /\ gen = "none"
    /\ LocalsInit
    /\ queried = FALSE /\ failed = FALSE /\ nyield = 0

SpecIds == InitIds /\ [][Next]_vars

\* C16 as stated: the rows a query returns, which are the rows handed to
\* get_naive_features, have pickup and drop-off location IDs in 1..263.
C16_TransformerRowsInRange ==
    \A k \in DOMAIN rows :
        /\ rows[k].PULocationID \in 1..maxLocID
        /\ rows[k].DOLocationID \in 1..maxLocID

\* a block query of the streaming variant has raised (the queries of the
\* reference loaders and the count query end the generator before any command
\* is built)
BlockQueryFailed == args.variant = "batch" /\ failed /\ command # NoCommand

\* C17 as stated: after a block query has failed the streaming variant issues
\* no further block query and yields no further batch.
C17_BlockFailureIsTerminal ==
    [][BlockQueryFailed => (~BatchBlock /\ nyield' = nyield)]_vars

\* C18: the streaming sequence is pull-based.  Every batch counted by
\* batch_idx has been yielded; a yield suspends the generator; a suspended
\* generator moves only by the caller's request, and the request itself issues
\* no query and changes no local: the blocks of the next batch are queried
\* only after the previous batch was handed over and the next one requested.
C18_PullBased ==
    /\ []((args.variant = "batch" /\ gen # "none") => nyield = batch_idx)
    /\ [][(args.variant = "batch" /\ gen # "none") =>
            /\ gen = "suspended" =>
                    /\ gen' = "running"
                    /\ UNCHANGED <<locals, queried, failed, nyield, pc, result>>
            /\ nyield' # nyield =>
                    /\ gen = "running" /\ gen' = "suspended"
                    /\ nyield' = nyield + 1
            /\ (command' # command \/ rows' # rows \/ queried' # queried) =>
                    gen = "running"]_vars

C18_Witness ==
    /\ args.variant = "batch" /\ gen = "running" /\ pc = "batch_block"
    /\ nyield = 1 /\ batch_idx = 1
    /\ blk_pos = 1 /\ Len(rows) > 0
    /\ command.offset = blks_in_sample[1] * args.block_size[1]

====
